---- MODULE Spec2Model ----
(***************************************************************************)
(* A model of votekit's tabulation engines (election_types.py): the STV,   *)
(* SequentialRCV and Borda objects, their chains of ElectionStates, the    *)
(* first-place tally, the quota, and the three transfer functions; of      *)
(* PreferenceProfile (profile.py) and of the ballot generators IC and      *)
(* PlackettLuce (ballot_generator.py).  Ballot weights are exact rationals *)
(* (fractions.Fraction), a ranking is a list of candidate sets.  Each      *)
(* class has a specification of its own over the same variables: Spec      *)
(* (STV), SeqSpec, BordaSpec, TallySpec for compute_votes called on its    *)
(* own, ProfileSpec for num_ballots and to_dict, GenSpec for the           *)
(* generators.                                                             *)
(***************************************************************************)
EXTENDS Integers, Sequences, FiniteSets

VARIABLES
    args,        \* the constructor (or function) arguments as the caller passed them
    pc,          \* "new" | "failed" | "ready" | "loop" (inside run_election);
                 \* "call" | "returned" for a function or method called on
                 \* its own
    seats,       \* self.seats
    transfer,    \* STV.transfer, by name; Borda.borda_weights
    threshold,   \* STV.threshold; Borda.num_cands
    chain,       \* the ElectionStates, oldest first; election_state is the last
    last_call,   \* the method whose call ended most recently
    err,         \* the exception that call raised, "none" when it returned
    steps,       \* run_step calls made by the current/last run_election
    last         \* the locals of the most recent run_step call, or of the
                 \* run_election loop of SequentialRCV; the value a method
                 \* called on its own returned

vars == <<args, pc, seats, transfer, threshold, chain, last_call, err, steps, last>>

----------------------------------------------------------------------------
(* Bounds of the model. *)

\* initial ballot weights are drawn from 0..MaxWeight
MaxWeight == 2
\* direct run_step calls stop once the chain has reached this round index
MaxRounds == 4
\* run_borda_step calls stop once the chain has reached this round index
MaxBordaRounds == 1

----------------------------------------------------------------------------
(* fractions.Fraction: a normalised pair num/den with den > 0. *)

Abs(x) == IF x < 0 THEN -x ELSE x

RECURSIVE GCD(_, _)
GCD(a, b) == IF b = 0 THEN a ELSE GCD(b, a % b)

Fraction(n, d) ==
    LET s == IF d < 0 THEN -1 ELSE 1
        g == GCD(Abs(n), Abs(d))
    IN  [num |-> (s * n) \div g, den |-> (s * d) \div g]

FromInt(n) == [num |-> n, den |-> 1]
FracAdd(a, b) == Fraction(a.num * b.den + b.num * a.den, a.den * b.den)
FracSub(a, b) == Fraction(a.num * b.den - b.num * a.den, a.den * b.den)
FracMul(a, b) == Fraction(a.num * b.num, a.den * b.den)
\* callers check b.num # 0 first: Fraction.__truediv__ raises ZeroDivisionError
FracDiv(a, b) == Fraction(a.num * b.den, a.den * b.num)
FracGE(a, b) == a.num * b.den >= b.num * a.den
FracLT(a, b) == a.num * b.den < b.num * a.den
\* int(Fraction) truncates towards zero
IntOf(a) == IF a.num >= 0 THEN a.num \div a.den ELSE -((-a.num) \div a.den)

----------------------------------------------------------------------------
(* Sequence helpers. *)

Range(s) == {s[i] : i \in DOMAIN s}

\* list.remove(x): drops the first occurrence of x
ListRemove(s, x) ==
    LET hits == {i \in DOMAIN s : s[i] = x}
        k == CHOOSE i \in hits : \A j \in hits : i <= j
    IN  IF hits = {} THEN s
        ELSE [i \in 1..(Len(s) - 1) |-> IF i < k THEN s[i] ELSE s[i + 1]]

RECURSIVE Repeat(_, _)
Repeat(x, n) == IF n <= 0 THEN <<>> ELSE <<x>> \o Repeat(x, n - 1)

RECURSIVE Concat(_)
Concat(ss) == IF ss = <<>> THEN <<>> ELSE Head(ss) \o Concat(Tail(ss))

\* every order a list of the set S can have
Orderings(S) ==
    {p \in [1..Cardinality(S) -> S] : \A i, j \in DOMAIN p : p[i] = p[j] => i = j}

----------------------------------------------------------------------------
(* Election helper functions (election_types.py, "Election Helper        *)
(* Functions").  A ballot is [ranking |-> list of candidate sets,          *)
(* weight |-> Fraction]; a profile's ballots are a list of ballots.        *)

\* the first-place test as it would be if a tied first position credited its members
Credits_member(ballot, candidate) ==
    Len(ballot.ranking) > 0 /\ candidate \in ballot.ranking[1]

\* `ballot.ranking and ballot.ranking[0] == {candidate}`
Credits(ballot, candidate) ==
    Len(ballot.ranking) > 0 /\ ballot.ranking[1] = {candidate}

\* the inner loop of compute_votes: the weight of the ballots crediting a candidate
RECURSIVE TallyFrom(_, _, _)
TallyFrom(candidate, ballots, i) ==
    IF i > Len(ballots) THEN FromInt(0)
    ELSE LET rest == TallyFrom(candidate, ballots, i + 1)
         IN  IF Credits(ballots[i], candidate)
             THEN FracAdd(ballots[i].weight, rest) ELSE rest

\* sorted(..., key=votes, reverse=True) is stable: an entry goes after every
\* earlier entry whose votes are >= its own
RECURSIVE InsertDesc(_, _)
InsertDesc(sorted, x) ==
    IF sorted = <<>> THEN <<x>>
    ELSE IF FracGE(Head(sorted).votes, x.votes)
         THEN <<Head(sorted)>> \o InsertDesc(Tail(sorted), x)
         ELSE <<x>> \o sorted

RECURSIVE SortDesc(_, _)
SortDesc(items, n) ==
    IF n = 0 THEN <<>> ELSE InsertDesc(SortDesc(items, n - 1), items[n])

\* compute_votes as it would be without the sort
compute_votes_unsorted(candidates, ballots) ==
    [i \in DOMAIN candidates |->
        [cand |-> candidates[i], votes |-> TallyFrom(candidates[i], ballots, 1)]]

\* compute_votes(candidates, ballots): a list of CandidateVotes(cand, votes),
\* by votes descending
compute_votes(candidates, ballots) ==
    LET votes == [i \in DOMAIN candidates |->
                    [cand |-> candidates[i],
                     votes |-> TallyFrom(candidates[i], ballots, 1)]]
    IN  SortDesc(votes, Len(votes))

\* the dict {cand: votes for cand, votes in fp_votes} read at one candidate
VotesOf(fp_votes, candidate) ==
    LET i == CHOOSE k \in DOMAIN fp_votes : fp_votes[k].cand = candidate
    IN  fp_votes[i].votes

\* remove_cand as it would be if it only copied the ballots
remove_cand_copy_only(removed_cand, ballots) == ballots

\* remove_cand: a deep copy of the ballots in which every ranking has lost the
\* positions that are exactly {removed_cand}
remove_cand(removed_cand, ballots) ==
    [n \in DOMAIN ballots |->
        [ballots[n] EXCEPT
            !.ranking = SelectSeq(ballots[n].ranking,
                                  LAMBDA candidate : candidate # {removed_cand})]]

\* the in-place loop as it would be if the transfer value were the shortfall
\* (threshold - votes) / votes
FractionalScaled_shortfall(winner, ballots, votes, thr) ==
    LET transfer_value ==
            FracDiv(FracSub(FromInt(thr), VotesOf(votes, winner)), VotesOf(votes, winner))
    IN  [n \in DOMAIN ballots |->
            IF Credits(ballots[n], winner)
            THEN [ballots[n] EXCEPT !.weight = FracMul(ballots[n].weight, transfer_value)]
            ELSE ballots[n]]

\* fractional_transfer, lines 370-374: the ballots as the in-place loop leaves them
FractionalScaled(winner, ballots, votes, thr) ==
    LET transfer_value ==
            FracDiv(FracSub(VotesOf(votes, winner), FromInt(thr)), VotesOf(votes, winner))
    IN  [n \in DOMAIN ballots |->
            IF Credits(ballots[n], winner)
            THEN [ballots[n] EXCEPT !.weight = FracMul(ballots[n].weight, transfer_value)]
            ELSE ballots[n]]

\* fractional_transfer raises ZeroDivisionError when votes[winner] is 0
FractionalRaises(winner, votes) == VotesOf(votes, winner).num = 0

fractional_transfer(winner, ballots, votes, thr) ==
    remove_cand(winner, FractionalScaled(winner, ballots, votes, thr))

\* seqRCV_transfer as it would be if it stripped the winner
seqRCV_transfer_stripping(winner, ballots, votes, thr) == remove_cand(winner, ballots)

\* seqRCV_transfer returns the list it was given
seqRCV_transfer(winner, ballots, votes, thr) == ballots

\* the unit ballots random_transfer makes of one ballot: range(int(ballot.weight))
UnitCount(ballot, winner) ==
    IF Credits(ballot, winner) /\ IntOf(ballot.weight) > 0 THEN IntOf(ballot.weight) ELSE 0

RECURSIVE SumTo(_, _)
SumTo(counts, n) == IF n = 0 THEN 0 ELSE counts[n] + SumTo(counts, n - 1)

\* the ways to draw k of the unit ballots, as the number drawn from each ballot
RECURSIVE Draws(_, _, _)
Draws(caps, i, k) ==
    IF i > Len(caps) THEN (IF k = 0 THEN {<<>>} ELSE {})
    ELSE UNION { { <<c>> \o rest : rest \in Draws(caps, i + 1, k - c) } :
                 c \in 0..(IF caps[i] < k THEN caps[i] ELSE k) }

\* random.sample(weight_1_ballots, int(votes[winner]) - threshold) raises ValueError
\* when the sample is larger than the population or negative
RandomRaises(winner, ballots, votes, thr) ==
    LET caps == [n \in DOMAIN ballots |-> UnitCount(ballots[n], winner)]
        k == IntOf(VotesOf(votes, winner)) - thr
    IN  k < 0 \/ k > SumTo(caps, Len(caps))

\* random_transfer: the lists it can return, one per draw.  The surplus ballots are
\* listed grouped by the ballot they were made of; the order random.sample gives
\* them is not kept, as every reader of the list sums or maps over it.
random_transfer(winner, ballots, votes, thr) ==
    LET caps == [n \in DOMAIN ballots |-> UnitCount(ballots[n], winner)]
        k == IntOf(VotesOf(votes, winner)) - thr
        kept == SelectSeq(ballots, LAMBDA ballot : ~Credits(ballot, winner))
        surplus_ballots(draw) ==
            Concat([n \in DOMAIN ballots |->
                      Repeat([ranking |-> ballots[n].ranking, weight |-> FromInt(1)],
                             draw[n])])
    IN  { remove_cand(winner, kept \o surplus_ballots(draw)) : draw \in Draws(caps, 1, k) }

----------------------------------------------------------------------------
(* PreferenceProfile (profile.py) and ElectionState. *)

\* Optional[list]: None is the empty tuple, a given list x is <<x>>
None == <<>>
Some(x) == <<x>>

\* PreferenceProfile.get_candidates: the explicit list, or else list(set) of the
\* ranked candidates, whose order the language leaves open
get_candidates(profile) ==
    IF profile.candidates # None THEN {profile.candidates[1]}
    ELSE Orderings(UNION {UNION Range(b.ranking) : b \in Range(profile.ballots)})

\* PreferenceProfile.num_ballots
RECURSIVE WeightFrom(_, _)
WeightFrom(ballots, i) ==
    IF i > Len(ballots) THEN FromInt(0)
    ELSE FracAdd(ballots[i].weight, WeightFrom(ballots, i + 1))

\* num_ballots as it would be if it counted the ballots
num_ballots_count(profile) == FromInt(Len(profile.ballots))

num_ballots(profile) == WeightFrom(profile.ballots, 1)

\* ElectionState.get_all_winners: the elected lists of the chain, oldest round first
RECURSIVE get_all_winners(_)
get_all_winners(ch) ==
    IF ch = <<>> THEN <<>>
    ELSE get_all_winners(SubSeq(ch, 1, Len(ch) - 1)) \o ch[Len(ch)].elected

\* get_all_eliminated as it would be if it listed the earliest round first
get_all_eliminated_oldest_first(ch) ==
    Concat([k \in DOMAIN ch |-> ch[k].eliminated])

\* ElectionState.get_all_eliminated: the eliminated lists, latest round first
RECURSIVE get_all_eliminated(_)
get_all_eliminated(ch) ==
    IF ch = <<>> THEN <<>>
    ELSE ch[Len(ch)].eliminated \o get_all_eliminated(SubSeq(ch, 1, Len(ch) - 1))

\* get_rankings as it would be if the remaining candidates were listed last
get_rankings_remaining_last(ch) ==
    get_all_winners(ch) \o get_all_eliminated(ch) \o ch[Len(ch)].remaining

\* ElectionState.get_rankings: the winners, the state's remaining candidates, the
\* eliminated
get_rankings(ch) ==
    get_all_winners(ch) \o ch[Len(ch)].remaining \o get_all_eliminated(ch)

\* the chains of tests/test_election_state.py (test_get_all_winners,
\* test_elimination_order, test_ranking_w_remaing), oldest state first
TestChain ==
    << [curr_round |-> 1, elected |-> <<{"A"}, {"B"}>>, eliminated |-> <<{"C"}>>,
        remaining |-> <<>>],
       [curr_round |-> 2, elected |-> <<{"D"}>>, eliminated |-> <<{"E"}>>,
        remaining |-> <<>>],
       [curr_round |-> 3, elected |-> <<{"A"}, {"B"}>>, eliminated |-> <<{"F"}>>,
        remaining |-> <<>>],
       [curr_round |-> 4, elected |-> <<{"D"}>>, eliminated |-> <<{"G"}>>,
        remaining |-> <<>>] >>

TestChainRemaining ==
    << [curr_round |-> 1, elected |-> <<{"A"}, {"B"}>>, eliminated |-> <<{"C"}>>,
        remaining |-> <<{"F"}>>],
       [curr_round |-> 2, elected |-> <<{"D"}, {"F"}>>, eliminated |-> <<{"E"}>>,
        remaining |-> <<>>] >>

\* the chain of the fixtures round_0, round_1, round_2 of
\* tests/test_election_state.py
TestRounds ==
    << [curr_round |-> 0, elected |-> <<>>, eliminated |-> <<>>,
        remaining |-> <<{"A", "B", "C"}>>],
       [curr_round |-> 1, elected |-> <<>>, eliminated |-> <<{"C"}>>,
        remaining |-> <<{"B", "A"}>>],
       [curr_round |-> 2, elected |-> <<{"B"}>>, eliminated |-> <<>>,
        remaining |-> <<{"A"}>>] >>

\* the candidates of a list of entries, each entry a set of candidates, in list
\* order; the order within one entry is the set's iteration order
Flatten(entries) ==
    Concat([i \in DOMAIN entries |->
              CHOOSE l \in Orderings(entries[i]) : TRUE])

\* the rows of the status table for the candidates of a list of entries
StatusRows(entries, stat, round) ==
    LET cands == Flatten(entries)
    IN  [i \in DOMAIN cands |->
           [Candidate |-> cands[i], Status |-> stat, Round |-> round]]

\* status as it would be if it listed the remaining candidates of every state
status_every_remaining(ch) ==
    Concat([k \in DOMAIN ch |->
              StatusRows(ch[k].elected, "Elected", ch[k].curr_round)
              \o StatusRows(ch[k].eliminated, "Eliminated", ch[k].curr_round)
              \o StatusRows(ch[k].remaining, "Remaining", ch[k].curr_round)])

\* ElectionState.status: a row per candidate elected or eliminated in a state of
\* the chain, with that state's round, and a row per candidate remaining in the
\* last state, with its round
status(ch) ==
    Concat([k \in DOMAIN ch |->
              StatusRows(ch[k].elected, "Elected", ch[k].curr_round)
              \o StatusRows(ch[k].eliminated, "Eliminated", ch[k].curr_round)])
    \o StatusRows(ch[Len(ch)].remaining, "Remaining", ch[Len(ch)].curr_round)

\* the result of get_round_outcome for the state st
RoundOutcome(st) ==
    [err |-> "none", Elected |-> Flatten(st.elected),
     Eliminated |-> Flatten(st.eliminated)]

\* get_round_outcome as it would be if it fell back on the state itself when no
\* state of the chain has the round
get_round_outcome_or_own(ch, roundNum) ==
    IF \E k \in DOMAIN ch : ch[k].curr_round = roundNum
    THEN RoundOutcome(ch[CHOOSE k \in DOMAIN ch : ch[k].curr_round = roundNum])
    ELSE RoundOutcome(ch[Len(ch)])

\* ElectionState.get_round_outcome: the elected and eliminated candidates of the
\* state of the chain with round roundNum, ValueError when there is none
get_round_outcome(ch, roundNum) ==
    IF \E k \in DOMAIN ch : ch[k].curr_round = roundNum
    THEN RoundOutcome(ch[CHOOSE k \in DOMAIN ch : ch[k].curr_round = roundNum])
    ELSE [err |-> "ValueError", Elected |-> <<>>, Eliminated |-> <<>>]

----------------------------------------------------------------------------
(* class STV *)

\* str.lower on the quota names the model passes
lower(quota) ==
    CASE quota = "Droop" -> "droop"
      [] quota = "HARE"  -> "hare"
      [] OTHER -> quota

\* get_threshold as it would be with the Droop quota lacking its "+ 1"
get_threshold_no_increment(quota, profile, s) ==
    IF lower(quota) = "droop"
    THEN [err |-> "none",
          value |-> IntOf(FracDiv(num_ballots(profile), FromInt(s + 1)))]
    ELSE IF lower(quota) = "hare"
    THEN IF s = 0 THEN [err |-> "ZeroDivisionError", value |-> 0]
         ELSE [err |-> "none",
               value |-> IntOf(FracDiv(num_ballots(profile), FromInt(s)))]
    ELSE [err |-> "ValueError", value |-> 0]

\* STV.get_threshold: the value returned, or the exception raised
get_threshold(quota, profile, s) ==
    IF lower(quota) = "droop"
    THEN [err |-> "none",
          value |-> IntOf(FracAdd(FracDiv(num_ballots(profile), FromInt(s + 1)),
                                  FromInt(1)))]
    ELSE IF lower(quota) = "hare"
    THEN IF s = 0 THEN [err |-> "ZeroDivisionError", value |-> 0]
         ELSE [err |-> "none",
               value |-> IntOf(FracDiv(num_ballots(profile), FromInt(s)))]
    ELSE [err |-> "ValueError", value |-> 0]

\* next_round as it would be if it counted only the latest round's winners
next_round_latest_only(ch, s) == Len(ch[Len(ch)].elected) # s

\* STV.next_round
next_round(ch, s) == Len(get_all_winners(ch)) # s

\* the ElectionState a run_step builds (lines 108-115)
NewState(state, elected, eliminated, remaining, ballots) ==
    [curr_round |-> state.curr_round + 1,
     elected    |-> elected,
     eliminated |-> eliminated,
     remaining  |-> remaining,
     profile    |-> [ballots |-> ballots, candidates |-> None]]

\* run_step, lines 85-94: the loop over fp_votes from entry i on.  acc holds the
\* locals: elected, remaining (the state's own list, changed in place), ballots,
\* own (the Ballot objects of the state's profile as in-place writes leave them),
\* fresh (ballots is still the state's own list), calls (the transfer calls made)
\* and err.  A set, as random_transfer has several outcomes.
RECURSIVE ElectLoop(_, _, _, _, _)
ElectLoop(i, fp_votes, thr, tr, acc) ==
    IF i > Len(fp_votes) THEN {acc}
    ELSE IF FracLT(fp_votes[i].votes, FromInt(thr))
    THEN ElectLoop(i + 1, fp_votes, thr, tr, acc)
    ELSE
      LET candidate == fp_votes[i].cand
          acc1 == [acc EXCEPT !.elected = Append(@, candidate),
                              !.remaining = ListRemove(@, candidate)]
          Called(out) == Append(acc.calls, [winner |-> candidate,
                                            given |-> acc.ballots,
                                            returned |-> out])
      IN  CASE tr = "fractional_transfer" ->
                 IF FractionalRaises(candidate, fp_votes)
                 THEN {[acc1 EXCEPT !.err = "ZeroDivisionError"]}
                 ELSE LET out == fractional_transfer(candidate, acc.ballots, fp_votes, thr)
                      IN  ElectLoop(i + 1, fp_votes, thr, tr,
                            [acc1 EXCEPT
                               !.ballots = out,
                               !.own = IF acc.fresh
                                       THEN FractionalScaled(candidate, acc.ballots,
                                                             fp_votes, thr)
                                       ELSE @,
                               !.fresh = FALSE,
                               !.calls = Called(out)])
            [] tr = "random_transfer" ->
                 IF RandomRaises(candidate, acc.ballots, fp_votes, thr)
                 THEN {[acc1 EXCEPT !.err = "ValueError"]}
                 ELSE UNION { ElectLoop(i + 1, fp_votes, thr, tr,
                                [acc1 EXCEPT !.ballots = out,
                                             !.fresh = FALSE,
                                             !.calls = Called(out)]) :
                              out \in random_transfer(candidate, acc.ballots, fp_votes, thr) }
            [] OTHER ->
                 LET out == seqRCV_transfer(candidate, acc.ballots, fp_votes, thr)
                 IN  ElectLoop(i + 1, fp_votes, thr, tr,
                       [acc1 EXCEPT !.ballots = out, !.calls = Called(out)])

\* line 78 as it would be if only the leader were elected
ElectedAll_leader(fp_votes) ==
    IF fp_votes = <<>> THEN <<>> ELSE <<fp_votes[1].cand>>

\* run_step, line 78: everyone left is elected
ElectedAll(fp_votes) == [i \in DOMAIN fp_votes |-> fp_votes[i].cand]

\* STV.run_step on the chain ch: every outcome it can have, as the chain it leaves
\* (the state it started from with the in-place writes, plus the new state unless
\* it raised), the exception, and the step's locals.
run_step(ch, s, tr, thr) ==
    LET state     == ch[Len(ch)]
        remaining == state.remaining
        ballots   == state.profile.ballots
        fp_votes  == compute_votes(remaining, ballots)
        open      == s - Len(get_all_winners(ch))
        Locals(branch, calls, raised) ==
            [branch |-> branch, remaining |-> remaining, ballots |-> ballots,
             fp_votes |-> fp_votes, open |-> open, calls |-> calls, err |-> raised]
        Written(rem, own) ==
            [ch EXCEPT ![Len(ch)] = [@ EXCEPT !.remaining = rem, !.profile.ballots = own]]
    IN  IF Len(remaining) = open
        THEN {[chain |-> Append(ch, NewState(state, ElectedAll(fp_votes),
                                             <<>>, <<>>, <<>>)),
               err |-> "none", last |-> Locals("all", <<>>, "none")]}
        ELSE IF fp_votes = <<>>
        THEN {[chain |-> ch, err |-> "IndexError", last |-> Locals("raise", <<>>, "IndexError")]}
        ELSE IF FracGE(fp_votes[1].votes, FromInt(thr))
        THEN {[chain |-> IF acc.err = "none"
                         THEN Append(Written(acc.remaining, acc.own),
                                     NewState(state, acc.elected, <<>>,
                                              acc.remaining, acc.ballots))
                         ELSE Written(acc.remaining, acc.own),
               err |-> acc.err,
               last |-> Locals("elect", acc.calls, acc.err)] :
              acc \in ElectLoop(1, fp_votes, thr, tr,
                        [elected |-> <<>>, remaining |-> remaining, ballots |-> ballots,
                         own |-> ballots, fresh |-> TRUE, calls |-> <<>>, err |-> "none"])}
        ELSE IF next_round(ch, s)
        THEN LET lp_votes == CHOOSE v \in {fp_votes[i].votes : i \in DOMAIN fp_votes} :
                                \A i \in DOMAIN fp_votes : FracGE(fp_votes[i].votes, v)
                 lp_candidates == {fp_votes[i].cand : i \in
                                     {j \in DOMAIN fp_votes : fp_votes[j].votes = lp_votes}}
             IN  {[chain |-> Append(Written(ListRemove(remaining, lp_cand), ballots),
                                    NewState(state, <<>>, <<lp_cand>>,
                                             ListRemove(remaining, lp_cand),
                                             remove_cand(lp_cand, ballots))),
                   err |-> "none", last |-> Locals("eliminate", <<>>, "none")] :
                  lp_cand \in lp_candidates}
        ELSE {[chain |-> Append(ch, NewState(state, <<>>, <<>>, remaining, ballots)),
               err |-> "none", last |-> Locals("none", <<>>, "none")]}

----------------------------------------------------------------------------
(* The elections the model runs. *)

Candidates == {"A", "B", "C"}

\* the rankings of the generated profiles' ballots, one ballot per entry
SlotRankings ==
    << <<{"A"}, {"B"}, {"C"}>>,
       <<{"B"}, {"A", "C"}>>,
       <<{"C"}, {"B"}>>,
       <<{"A", "B"}, {"C"}>> >>

GeneratedBallots ==
    { [n \in DOMAIN SlotRankings |-> [ranking |-> SlotRankings[n], weight |-> FromInt(w[n])]] :
      w \in [DOMAIN SlotRankings -> 0..MaxWeight] }

\* tests/test_election_state.py, b1, b2, b3
FixtureBallots ==
    << [ranking |-> <<{"A"}, {"B"}, {"C"}>>, weight |-> FromInt(250)],
       [ranking |-> <<{"B"}, {"A"}, {"C"}>>, weight |-> FromInt(200)],
       [ranking |-> <<{"C"}, {"B"}, {"A"}>>, weight |-> FromInt(100)] >>

Quotas == {"droop", "Droop", "HARE", "borda"}
Transfers == {"fractional_transfer", "random_transfer", "seqRCV_transfer"}
ExplicitCandidates == {None, Some(<<"B", "A">>)}

\* the constructor arguments: every generated profile with every seat count, and
\* the fixture profile as a one-seat and as a three-seat election
Elections ==
    [profile : [ballots : GeneratedBallots, candidates : ExplicitCandidates],
     transfer : Transfers, seats : 0..Cardinality(Candidates), quota : Quotas]
    \cup
    [profile : [ballots : {FixtureBallots}, candidates : {None}],
     transfer : Transfers, seats : {1, 3}, quota : Quotas]

NoLocals ==
    [branch |-> "-", remaining |-> <<>>, ballots |-> <<>>, fp_votes |-> <<>>, open |-> 0,
     calls |-> <<>>, err |-> "none"]

Init ==
    /\ args \in Elections
    /\ pc = "new"
    /\ seats = 0
    /\ transfer = "-"
    /\ threshold = 0
    /\ chain = <<>>
    /\ last_call = "-"
    /\ err = "none"
    /\ steps = 0
    /\ last = NoLocals

\* STV.__init__
STVInit ==
    /\ pc = "new"
    /\ last_call' = "__init__"
    /\ \E candidates \in get_candidates(args.profile) :
         LET quota == get_threshold(args.quota, args.profile, args.seats)
             fp == compute_votes(candidates, args.profile.ballots)
         IN  IF quota.err # "none"
             THEN /\ pc' = "failed"
                  /\ err' = quota.err
                  /\ UNCHANGED <<seats, transfer, threshold, chain>>
             ELSE /\ pc' = "ready"
                  /\ err' = "none"
                  /\ seats' = args.seats
                  /\ transfer' = args.transfer
                  /\ threshold' = quota.value
                  /\ chain' = << [curr_round |-> 0, elected |-> <<>>, eliminated |-> <<>>,
                                  remaining |-> [i \in DOMAIN fp |-> fp[i].cand],
                                  profile |-> args.profile] >>
    /\ UNCHANGED <<args, steps, last>>

\* a caller's own call of run_step
RunStep ==
    /\ pc = "ready"
    /\ chain[Len(chain)].curr_round < MaxRounds
    /\ \E out \in run_step(chain, seats, transfer, threshold) :
         /\ chain' = out.chain
         /\ err' = out.err
         /\ last' = out.last
    /\ last_call' = "run_step"
    /\ UNCHANGED <<args, pc, seats, transfer, threshold, steps>>

\* run_election, lines 124-127: the check on entry
RunElection ==
    /\ pc = "ready"
    /\ steps' = 0
    /\ IF ~next_round(chain, seats)
       THEN /\ pc' = "ready"
            /\ last_call' = "run_election"
            /\ err' = "ValueError"
       ELSE /\ pc' = "loop"
            /\ UNCHANGED <<last_call, err>>
    /\ UNCHANGED <<args, seats, transfer, threshold, chain, last>>

\* run_election, lines 129-130: one turn of the loop
LoopStep ==
    /\ pc = "loop"
    /\ next_round(chain, seats)
    /\ \E out \in run_step(chain, seats, transfer, threshold) :
         /\ chain' = out.chain
         /\ last' = out.last
         /\ IF out.err = "none"
            THEN /\ pc' = "loop"
                 /\ UNCHANGED <<last_call, err>>
            ELSE /\ pc' = "ready"
                 /\ last_call' = "run_election"
                 /\ err' = out.err
    /\ steps' = steps + 1
    /\ UNCHANGED <<args, seats, transfer, threshold>>

\* run_election, line 132: the loop is over
LoopReturn ==
    /\ pc = "loop"
    /\ ~next_round(chain, seats)
    /\ pc' = "ready"
    /\ last_call' = "run_election"
    /\ err' = "none"
    /\ UNCHANGED <<args, seats, transfer, threshold, chain, steps, last>>

Next == STVInit \/ RunStep \/ RunElection \/ LoopStep \/ LoopReturn

Spec == Init /\ [][Next]_vars

----------------------------------------------------------------------------
(* class SequentialRCV.  Its run_step builds an STV object of its own and runs  *)
(* it to the end, so STV's constructor and run_election are operators here:     *)
(* every outcome they can have.                                                 *)

\* STV.__init__ (lines 27-43): the round-0 chain and the threshold, one outcome per
\* order get_candidates can give
STV_init(profile, s, quota) ==
    { LET fp == compute_votes(candidates, profile.ballots)
          q == get_threshold(quota, profile, s)
      IN  [err |-> q.err,
           threshold |-> q.value,
           chain |-> << [curr_round |-> 0, elected |-> <<>>, eliminated |-> <<>>,
                         remaining |-> [i \in DOMAIN fp |-> fp[i].cand],
                         profile |-> profile] >>] :
      candidates \in get_candidates(profile) }

\* STV.run_election, lines 129-132: the loop, from the chain ch on
RECURSIVE run_election_loop(_, _, _, _)
run_election_loop(ch, s, tr, thr) ==
    IF ~next_round(ch, s) THEN {[chain |-> ch, err |-> "none"]}
    ELSE UNION { IF out.err # "none" THEN {[chain |-> out.chain, err |-> out.err]}
                 ELSE run_election_loop(out.chain, s, tr, thr) :
                 out \in run_step(ch, s, tr, thr) }

\* STV.run_election
run_election(ch, s, tr, thr) ==
    IF ~next_round(ch, s) THEN {[chain |-> ch, err |-> "ValueError"]}
    ELSE run_election_loop(ch, s, tr, thr)

\* list(str), on the candidate names of the model: the characters of the name
list_of_str(name) ==
    CASE name = "Dee" -> <<"D", "e", "e">>
      [] OTHER -> <<name>>

\* line 170: old_election.get_all_winners()[0]
stage_winner(old_election) == get_all_winners(old_election)[1]

\* SequentialRCV.run_step(old_profile) on the chain ch of the SequentialRCV object:
\* every outcome, as the chain it leaves and the exception
Seq_run_step(ch, old_profile) ==
    UNION { { IF old_election.err # "none"
              THEN [chain |-> ch, err |-> old_election.err]
              ELSE LET elected_cand == stage_winner(old_election.chain)
                       updated_ballots == remove_cand(elected_cand, old_profile.ballots)
                   IN  [chain |-> Append(ch,
                            [curr_round |-> ch[Len(ch)].curr_round + 1,
                             elected    |-> list_of_str(elected_cand),
                             eliminated |-> <<>>,
                             remaining  |->
                                 old_election.chain[Len(old_election.chain)].remaining,
                             profile    |-> [ballots |-> updated_ballots,
                                             candidates |-> None]]),
                        err |-> "none"] :
              old_election \in run_election(IRVrun.chain, 1, "seqRCV_transfer",
                                            IRVrun.threshold) } :
            IRVrun \in STV_init(old_profile, 1, "droop") }

\* the candidates of the Sequential RCV elections
SeqCandidates == {"A", "B", "C", "Dee"}

\* the rankings of their ballots, one ballot per entry
SeqRankings ==
    << <<{"A"}, {"B"}, {"C"}, {"Dee"}>>,
       <<{"B"}, {"A", "C"}>>,
       <<{"Dee"}, {"C"}, {"B"}, {"A"}>> >>

SeqBallots ==
    { [n \in DOMAIN SeqRankings |-> [ranking |-> SeqRankings[n], weight |-> FromInt(w[n])]] :
      w \in [DOMAIN SeqRankings -> 0..MaxWeight] }

\* the constructor arguments
SeqElections ==
    [profile : [ballots : SeqBallots, candidates : {None}],
     seats : 0..Cardinality(SeqCandidates)]

\* run_election's locals: old_profile and the list of the stages' elected lists
SeqLocals(old_profile, elected) ==
    [branch |-> "stage", old_profile |-> old_profile, elected |-> elected, err |-> "none"]

SeqInit ==
    /\ args \in SeqElections
    /\ pc = "new"
    /\ seats = 0
    /\ transfer = "-"
    /\ threshold = 0
    /\ chain = <<>>
    /\ last_call = "-"
    /\ err = "none"
    /\ steps = 0
    /\ last = NoLocals

\* SequentialRCV.__init__
SeqNew ==
    /\ pc = "new"
    /\ pc' = "ready"
    /\ last_call' = "__init__"
    /\ seats' = args.seats
    /\ chain' = << [curr_round |-> 0, elected |-> <<>>, eliminated |-> <<>>,
                    remaining |-> <<>>, profile |-> args.profile] >>
    /\ UNCHANGED <<args, transfer, threshold, err, steps, last>>

\* SequentialRCV.run_election, lines 194-196; a second call starts over from
\* self.profile on the chain the first one left
SeqRunElection ==
    /\ pc = "ready"
    /\ chain[Len(chain)].curr_round < MaxRounds
    /\ pc' = "loop"
    /\ steps' = 0
    /\ last' = SeqLocals(args.profile, <<>>)
    /\ UNCHANGED <<args, seats, transfer, threshold, chain, last_call, err>>

\* lines 198-201: one stage
SeqLoopStep ==
    /\ pc = "loop"
    /\ Len(last.elected) < seats
    /\ \E out \in Seq_run_step(chain, last.old_profile) :
         /\ chain' = out.chain
         /\ IF out.err = "none"
            THEN /\ pc' = "loop"
                 /\ last' = SeqLocals(out.chain[Len(out.chain)].profile,
                                      Append(last.elected,
                                             out.chain[Len(out.chain)].elected))
                 /\ UNCHANGED <<last_call, err>>
            ELSE /\ pc' = "ready"
                 /\ last_call' = "run_election"
                 /\ err' = out.err
                 /\ last' = [last EXCEPT !.err = out.err]
    /\ steps' = steps + 1
    /\ UNCHANGED <<args, seats, transfer, threshold>>

\* line 202: the seats are filled
SeqLoopReturn ==
    /\ pc = "loop"
    /\ ~(Len(last.elected) < seats)
    /\ pc' = "ready"
    /\ last_call' = "run_election"
    /\ err' = "none"
    /\ UNCHANGED <<args, seats, transfer, threshold, chain, steps, last>>

SeqNext == SeqNew \/ SeqRunElection \/ SeqLoopStep \/ SeqLoopReturn

SeqSpec == SeqInit /\ [][SeqNext]_vars

----------------------------------------------------------------------------
(* class Borda.  borda_scores is a dict keyed by str(set): the model keeps it as  *)
(* the list of its entries [cand |-> key, votes |-> score] in insertion order,    *)
(* a key being the set the string was made of.                                    *)

\* set(str), on the candidate names of the model: the characters of the name
set_of_str(name) == Range(list_of_str(name))

\* `key in borda_scores`
HasKey(scores, key) == \E i \in DOMAIN scores : scores[i].cand = key

\* borda_scores[key] = 0 when the key is new, then borda_scores[key] += points
AddScore(scores, key, points) ==
    IF HasKey(scores, key)
    THEN [i \in DOMAIN scores |->
            IF scores[i].cand = key
            THEN [scores[i] EXCEPT !.votes = FracAdd(@, points)] ELSE scores[i]]
    ELSE Append(scores, [cand |-> key, votes |-> points])

\* sum(borda_weights[rank:])
RECURSIVE SumFrom(_, _)
SumFrom(weights, rank) ==
    IF rank >= Len(weights) THEN 0 ELSE weights[rank + 1] + SumFrom(weights, rank + 1)

\* lines 260-276: the loop over the positions of one ballot, from position i on
RECURSIVE RankedLoop(_, _, _, _)
RankedLoop(scores, ballot, i, weights) ==
    IF i > Len(ballot.ranking) THEN scores
    ELSE RankedLoop(AddScore(scores, ballot.ranking[i],
                             IF i <= Len(weights)
                             THEN FracMul(ballot.weight, FromInt(weights[i]))
                             ELSE FromInt(0)),
                    ballot, i + 1, weights)

\* lines 291-300: the loop over remaining_cands, taken in the order given
RECURSIVE UnrankedLoop(_, _, _)
UnrankedLoop(scores, remaining_cands, share) ==
    IF remaining_cands = <<>> THEN scores
    ELSE UnrankedLoop(AddScore(scores, set_of_str(Head(remaining_cands)), share),
                      Tail(remaining_cands), share)

\* line 294: frequency * (remaining_points / len(remaining_cands))
UnrankedShare(ballot, weights, unranked, n) ==
    FracMul(ballot.weight, Fraction(SumFrom(weights, Len(ballot.ranking)), unranked))

\* lines 257-300, the body of the loop for one ballot: the dicts it can leave, one
\* per order list(set(...) - set(...)) can give remaining_cands
ScoreBallot(scores, ballot, all_candidates, weights, standard) ==
    LET ranked == RankedLoop(scores, ballot, 1, weights)
        unranked == Range(all_candidates) \ UNION Range(ballot.ranking)
    IN  IF standard /\ Len(ballot.ranking) < Len(weights) + 1 /\ unranked # {}
        THEN { UnrankedLoop(ranked, remaining_cands,
                            UnrankedShare(ballot, weights, Cardinality(unranked),
                                          Len(all_candidates))) :
               remaining_cands \in Orderings(unranked) }
        ELSE {ranked}

\* lines 257-300: the dicts the loop over the ballots can leave, from ballot i on
RECURSIVE ScoreBallots(_, _, _, _, _, _)
ScoreBallots(scores, ballots, i, all_candidates, weights, standard) ==
    IF i > Len(ballots) THEN {scores}
    ELSE UNION { ScoreBallots(next, ballots, i + 1, all_candidates, weights, standard) :
                 next \in ScoreBallot(scores, ballots[i], all_candidates, weights,
                                      standard) }

\* lines 308-309: str(key).replace("{'", "").replace("'}", ""), on the keys of the
\* model: the name inside a one-name key, and what is left of a longer key, in
\* either order str may print a set
reformat(key) ==
    CASE key = {"A", "B"} -> {"A', 'B", "B', 'A"}
      [] key = {"A", "C"} -> {"A', 'C", "C', 'A"}
      [] key = {"D", "e"} -> {"D', 'e", "e', 'D"}
      [] OTHER -> key

\* the lists reformatting a list of keys can give
RECURSIVE reformat_all(_)
reformat_all(keys) ==
    IF keys = <<>> THEN {<<>>}
    ELSE { <<name>> \o rest : name \in reformat(Head(keys).cand),
                              rest \in reformat_all(Tail(keys)) }

\* the keys of the ballots' positions: the keys of candidates_ballots
RankedKeys(ballots) == UNION {Range(b.ranking) : b \in Range(ballots)}

\* line 303: sorted(borda_scores, key=borda_scores.get, reverse=True)
sorted_borda(scores) == SortDesc(scores, Len(scores))

\* Borda.run_borda_step on the chain ch: every outcome, as the chain it leaves,
\* the exception, and the locals borda_scores and sorted_borda
run_borda_step(ch, s, weights, standard) ==
    UNION { UNION {
        LET sorted == sorted_borda(borda_scores)
            cut == IF s < Len(sorted) THEN s ELSE Len(sorted)
            winners == SubSeq(sorted, 1, cut)
            losers == SubSeq(sorted, cut + 1, Len(sorted))
            ballots == ch[Len(ch)].profile.ballots
            Locals(raised) ==
                [branch |-> "borda", all_candidates |-> all_candidates,
                 borda_scores |-> borda_scores, sorted_borda |-> sorted, err |-> raised,
                 awards |-> [n \in DOMAIN ballots |->
                               CHOOSE d \in ScoreBallot(<<>>, ballots[n], all_candidates,
                                                        weights, standard) : TRUE]]
        IN  IF \E i \in DOMAIN winners :
                  winners[i].cand \notin RankedKeys(ch[Len(ch)].profile.ballots)
            THEN {[chain |-> ch, err |-> "KeyError", last |-> Locals("KeyError")]}
            ELSE { [chain |-> Append(ch,
                       [curr_round |-> ch[Len(ch)].curr_round + 1,
                        elected    |-> winners_list,
                        eliminated |-> losers_list,
                        remaining  |-> <<>>,
                        profile    |-> ch[Len(ch)].profile]),
                    err |-> "none", last |-> Locals("none")] :
                   winners_list \in reformat_all(winners),
                   losers_list \in reformat_all(losers) } :
        borda_scores \in ScoreBallots(<<>>, ch[Len(ch)].profile.ballots, 1,
                                      all_candidates, weights, standard) } :
      all_candidates \in get_candidates(ch[Len(ch)].profile) }

\* the rankings of the Borda profiles' ballots, one ballot per entry
BordaRankings ==
    << <<{"A"}, {"B"}, {"C"}>>,
       <<{"B"}, {"A", "C"}>>,
       <<{"C"}, {"B"}>> >>

BordaBallots ==
    { [n \in DOMAIN BordaRankings |->
          [ranking |-> BordaRankings[n], weight |-> FromInt(w[n])]] :
      w \in [DOMAIN BordaRankings -> 0..MaxWeight] }

\* the constructor arguments: the candidates derived from the ballots or listed,
\* with a candidate no ballot ranks; the default weights or a shorter vector
BordaElections ==
    [profile : [ballots : BordaBallots,
                candidates : {None, Some(<<"C", "B", "A", "Dee">>)}],
     seats : 0..Cardinality(Candidates),
     borda_weights : {None, Some(<<2, 1>>)},
     standard : BOOLEAN]

BordaInit ==
    /\ args \in BordaElections
    /\ pc = "new"
    /\ seats = 0
    /\ transfer = "-"
    /\ threshold = 0
    /\ chain = <<>>
    /\ last_call = "-"
    /\ err = "none"
    /\ steps = 0
    /\ last = NoLocals

\* range(self.num_cands, 0, -1)
default_weights(num_cands) == [i \in 1..num_cands |-> num_cands + 1 - i]

\* Borda.__init__; transfer holds self.borda_weights and threshold self.num_cands
BordaNew ==
    /\ pc = "new"
    /\ pc' = "ready"
    /\ last_call' = "__init__"
    /\ seats' = args.seats
    /\ \E candidates \in get_candidates(args.profile) :
         /\ threshold' = Len(candidates)
         /\ transfer' = IF args.borda_weights = None
                        THEN default_weights(Len(candidates))
                        ELSE args.borda_weights[1]
    /\ chain' = << [curr_round |-> 0, elected |-> <<>>, eliminated |-> <<>>,
                    remaining |-> <<>>, profile |-> args.profile] >>
    /\ UNCHANGED <<args, err, steps, last>>

\* a caller's call of run_borda_step
RunBordaStep ==
    /\ pc = "ready"
    /\ chain[Len(chain)].curr_round < MaxBordaRounds
    /\ \E out \in run_borda_step(chain, seats, transfer, args.standard) :
         /\ chain' = out.chain
         /\ err' = out.err
         /\ last' = out.last
    /\ last_call' = "run_borda_step"
    /\ UNCHANGED <<args, pc, seats, transfer, threshold, steps>>

\* Borda.run_borda_election: one run_borda_step
RunBordaElection ==
    /\ pc = "ready"
    /\ chain[Len(chain)].curr_round < MaxBordaRounds
    /\ \E out \in run_borda_step(chain, seats, transfer, args.standard) :
         /\ chain' = out.chain
         /\ err' = out.err
         /\ last' = out.last
    /\ last_call' = "run_borda_election"
    /\ UNCHANGED <<args, pc, seats, transfer, threshold, steps>>

BordaNext == BordaNew \/ RunBordaStep \/ RunBordaElection

BordaSpec == BordaInit /\ [][BordaNext]_vars

----------------------------------------------------------------------------
(* compute_votes called on its own: a candidate list and a ballot list. *)

\* the rankings of the ballots: full, tied first position, empty, short
TallyRankings ==
    << <<{"A"}, {"B"}>>,
       <<{"A", "B"}, {"C"}>>,
       <<>>,
       <<{"B"}, {"A"}>> >>

\* Ballot.weight: a whole number of voters, or the half ballot a transfer leaves
TallyWeights == {FromInt(w) : w \in 0..MaxWeight} \cup {Fraction(1, 2)}

\* the calls: every list of distinct candidates with every weighting of the ballots
TallyCalls ==
    [candidates : UNION {Orderings(S) : S \in SUBSET Candidates},
     ballots : { [n \in DOMAIN TallyRankings |->
                    [ranking |-> TallyRankings[n], weight |-> w[n]]] :
                 w \in [DOMAIN TallyRankings -> TallyWeights] }]

TallyInit ==
    /\ args \in TallyCalls
    /\ pc = "call"
    /\ seats = 0
    /\ transfer = "-"
    /\ threshold = 0
    /\ chain = <<>>
    /\ last_call = "-"
    /\ err = "none"
    /\ steps = 0
    /\ last = NoLocals

\* compute_votes(candidates, ballots) returns
ComputeVotes ==
    /\ pc = "call"
    /\ pc' = "returned"
    /\ last_call' = "compute_votes"
    /\ last' = [NoLocals EXCEPT !.remaining = args.candidates,
                                !.ballots = args.ballots,
                                !.fp_votes = compute_votes(args.candidates, args.ballots)]
    /\ UNCHANGED <<args, seats, transfer, threshold, chain, err, steps>>

TallySpec == TallyInit /\ [][ComputeVotes]_vars

----------------------------------------------------------------------------
(* PreferenceProfile.num_ballots and to_dict called on a profile. *)

\* to_dict, line 71: the tuples tuple(next(iter(item)) for item in ranking) can
\* be: one member of every position, whichever the set yields first
rank_tuple(ranking) ==
    {t \in [DOMAIN ranking -> UNION Range(ranking)] :
        \A i \in DOMAIN ranking : t[i] \in ranking[i]}

\* to_dict, lines 73-83: di[rank_tuple] = share for a new key, += share otherwise
DictAdd(di, key, share) ==
    IF \E i \in DOMAIN di : di[i].key = key
    THEN [i \in DOMAIN di |->
            IF di[i].key = key
            THEN [di[i] EXCEPT !.value = FracAdd(@, share)] ELSE di[i]]
    ELSE Append(di, [key |-> key, value |-> share])

\* to_dict, lines 70-83: the loop over the ballots from ballot i on, every dict
\* it can leave
RECURSIVE to_dict_loop(_, _, _, _, _)
to_dict_loop(di, ballots, i, standardize, total) ==
    IF i > Len(ballots) THEN {di}
    ELSE LET share == IF standardize THEN FracDiv(ballots[i].weight, total)
                      ELSE ballots[i].weight
         IN  UNION { to_dict_loop(DictAdd(di, key, share), ballots, i + 1,
                                  standardize, total) :
                     key \in rank_tuple(ballots[i].ranking) }

\* PreferenceProfile.to_dict: every outcome, the dict as its entries in insertion
\* order; the division by a total of 0 raises
to_dict(profile, standardize) ==
    LET total == num_ballots(profile)
    IN  IF standardize /\ total.num = 0 /\ profile.ballots # <<>>
        THEN {[err |-> "ZeroDivisionError", di |-> <<>>]}
        ELSE {[err |-> "none", di |-> di] :
              di \in to_dict_loop(<<>>, profile.ballots, 1, standardize, total)}

\* the most ballots a profile holds
MaxBallots == 3

\* the rankings of the ballots: two full ones, one with a tied first position and
\* the two that name one of its members
ProfileRankings ==
    {<<{"A"}, {"B"}>>, <<{"A", "B"}, {"C"}>>, <<{"A"}, {"C"}>>, <<{"B"}, {"C"}>>}

\* the profiles: every list of up to MaxBallots ballots, rankings repeating
Profiles ==
    [ballots : UNION {[1..n -> [ranking : ProfileRankings, weight : TallyWeights]] :
                        n \in 0..MaxBallots},
     candidates : {None}]

ProfileInit ==
    /\ args \in Profiles
    /\ pc = "call"
    /\ seats = 0
    /\ transfer = "-"
    /\ threshold = 0
    /\ chain = <<>>
    /\ last_call = "-"
    /\ err = "none"
    /\ steps = 0
    /\ last = NoLocals

\* profile.num_ballots() returns
NumBallots ==
    /\ pc = "call"
    /\ pc' = "returned"
    /\ last_call' = "num_ballots"
    /\ last' = [value |-> num_ballots(args)]
    /\ UNCHANGED <<args, seats, transfer, threshold, chain, err, steps>>

\* profile.to_dict(standardize) returns or raises
ToDict ==
    /\ pc = "call"
    /\ pc' = "returned"
    /\ last_call' = "to_dict"
    /\ \E standardize \in BOOLEAN : \E out \in to_dict(args, standardize) :
          /\ last' = [standardize |-> standardize, di |-> out.di]
          /\ err' = out.err
    /\ UNCHANGED <<args, seats, transfer, threshold, chain, steps>>

ProfileNext == NumBallots \/ ToDict

ProfileSpec == ProfileInit /\ [][ProfileNext]_vars

----------------------------------------------------------------------------
(* Ballot generators (ballot_generator.py): IC and PlackettLuce. *)

\* itertools.permutations(candidate_list) as lists: every order of the entries,
\* the one empty order for an empty list
perm_rankings(candidate_list) ==
    {r \in [DOMAIN candidate_list -> Range(candidate_list)] :
        \A i, j \in DOMAIN r : i # j => r[i] # r[j]}

\* tuple(ballot) can be a dict key: the entries of candidate_list are sets
\* (line 26), which cannot be hashed, so only the empty tuple can
hashable(ballot) == ballot = <<>>

\* ballot_pool_to_profile, lines 42-44: the occurrence count of every ballot of
\* the pool from ballot i on, in insertion order
RECURSIVE ballot_weights(_, _, _)
ballot_weights(di, ballot_pool, i) ==
    IF i > Len(ballot_pool) THEN di
    ELSE ballot_weights(DictAdd(di, ballot_pool[i], FromInt(1)), ballot_pool, i + 1)

\* Ballot_Generator.ballot_pool_to_profile: the profile, or the TypeError of
\* hashing a tuple of sets (line 44) or of set(candidates) in the profile's
\* validator cands_must_be_unique (line 49, profile.py line 20)
ballot_pool_to_profile(ballot_pool, candidate_list) ==
    IF \E i \in DOMAIN ballot_pool : ~hashable(ballot_pool[i])
    THEN [err |-> "TypeError", profile |-> None]
    ELSE IF candidate_list # <<>>
    THEN [err |-> "TypeError", profile |-> None]
    ELSE LET counts == ballot_weights(<<>>, ballot_pool, 1)
         IN  [err |-> "none",
              profile |-> Some([ballots |-> [n \in DOMAIN counts |->
                                               [ranking |-> counts[n].key,
                                                weight |-> counts[n].value]],
                                candidates |-> Some(candidate_list)])]

\* IC.generate_ballots: number_of_ballots draws among the permutations
IC_generate_ballots(g) ==
    { ballot_pool_to_profile(ballot_pool, g.candidate_list) :
      ballot_pool \in [1..g.number_of_ballots -> perm_rankings(g.candidate_list)] }

\* numpy.random.choice(a, size, p, replace=False) with every p positive: every
\* list of size distinct entries of a; ValueError for an empty a and for more
\* entries than a has
choice(a, size) ==
    IF a = <<>> \/ size > Len(a)
    THEN [err |-> "ValueError", samples |-> {}]
    ELSE [err |-> "none",
          samples |-> {r \in [1..size -> Range(a)] :
                         \A i, j \in 1..size : i # j => r[i] # r[j]}]

\* PlackettLuce.generate_ballots, line 122: int(number_of_ballots * share); the
\* shares are halves and quarters, which the float product holds exactly
num_ballots_race(g, race) ==
    IntOf(FracMul(FromInt(g.number_of_ballots), g.demo_breakdown[race].share))

\* PlackettLuce.generate_ballots, lines 129-138: n more ballots drawn for a race
RECURSIVE draw_ballots(_, _, _)
draw_ballots(g, n, ballots_list) ==
    IF n = 0 THEN {[err |-> "none", ballots_list |-> ballots_list]}
    ELSE LET drawn == choice(g.candidate_list, g.ballot_length)
         IN  IF drawn.err # "none"
             THEN {[err |-> drawn.err, ballots_list |-> ballots_list]}
             ELSE UNION { draw_ballots(g, n - 1, Append(ballots_list, ballot)) :
                          ballot \in drawn.samples }

\* PlackettLuce.generate_ballots, lines 120-138: the loop over the races from
\* race r on.  pref_interval_by_slate is None unless assigned after __init__,
\* which passes it under another name (line 105): line 123 raises; line 126
\* looks up a set in a dict: TypeError as soon as there is a candidate.
RECURSIVE race_loop(_, _, _)
race_loop(g, r, ballots_list) ==
    IF r > Len(g.demo_breakdown) THEN {[err |-> "none", ballots_list |-> ballots_list]}
    ELSE IF g.pref_interval_by_slate = None
    THEN {[err |-> "TypeError", ballots_list |-> ballots_list]}
    ELSE IF g.candidate_list # <<>>
    THEN {[err |-> "TypeError", ballots_list |-> ballots_list]}
    ELSE UNION { IF out.err # "none" THEN {out}
                 ELSE race_loop(g, r + 1, out.ballots_list) :
                 out \in draw_ballots(g, num_ballots_race(g, r), ballots_list) }

\* PlackettLuce.generate_ballots
PlackettLuce_generate_ballots(g) ==
    { IF out.err # "none" THEN [err |-> out.err, profile |-> None]
      ELSE ballot_pool_to_profile(out.ballots_list, g.candidate_list) :
      out \in race_loop(g, 1, <<>>) }

\* demo_breakdown: one block, two equal blocks, a quarter and three quarters
Breakdowns ==
    { <<[race |-> "W", share |-> FromInt(1)]>>,
      <<[race |-> "W", share |-> Fraction(1, 2)],
        [race |-> "C", share |-> Fraction(1, 2)]>>,
      <<[race |-> "W", share |-> Fraction(1, 4)],
        [race |-> "C", share |-> Fraction(3, 4)]>> }

\* the generators: the fields of Ballot_Generator (lines 25-30);
\* pref_interval_by_slate is None as constructed, or assigned afterwards
Generators ==
    [class : {"IC", "PlackettLuce"},
     number_of_ballots : 0..MaxBallots,
     candidate_list : {<<>>, <<{"A"}, {"B"}>>, <<{"A"}, {"B"}, {"C"}>>},
     ballot_length : {1, 2},
     demo_breakdown : Breakdowns,
     pref_interval_by_slate : {None, Some("assigned")}]

GenInit ==
    /\ args \in Generators
    /\ pc = "call"
    /\ seats = 0
    /\ transfer = "-"
    /\ threshold = 0
    /\ chain = <<>>
    /\ last_call = "-"
    /\ err = "none"
    /\ steps = 0
    /\ last = NoLocals

\* IC(...).generate_ballots() returns or raises
ICGenerate ==
    /\ pc = "call" /\ args.class = "IC"
    /\ pc' = "returned"
    /\ last_call' = "generate_ballots"
    /\ \E out \in IC_generate_ballots(args) :
          /\ last' = [profile |-> out.profile]
          /\ err' = out.err
    /\ UNCHANGED <<args, seats, transfer, threshold, chain, steps>>

\* PlackettLuce(...).generate_ballots() returns or raises
PLGenerate ==
    /\ pc = "call" /\ args.class = "PlackettLuce"
    /\ pc' = "returned"
    /\ last_call' = "generate_ballots"
    /\ \E out \in PlackettLuce_generate_ballots(args) :
          /\ last' = [profile |-> out.profile]
          /\ err' = out.err
    /\ UNCHANGED <<args, seats, transfer, threshold, chain, steps>>

GenNext == ICGenerate \/ PLGenerate

GenSpec == GenInit /\ [][GenNext]_vars

----------------------------------------------------------------------------
(* What the claims speak of. *)

\* an STV object exists
Started == pc \in {"ready", "loop"}

\* STV.election_state
election_state == chain[Len(chain)]

\* STV.get_init_profile: the profile the constructor was given, which is the
\* round-0 state's profile, read as its Ballot objects are now
get_init_profile == chain[1].profile

\* the candidate set of the profile the election was built from
InitialCandidates == Range(CHOOSE l \in get_candidates(args.profile) : TRUE)

NoDuplicates(s) == \A i, j \in DOMAIN s : s[i] = s[j] => i = j

\* a run_step call has been made, and it built a new ElectionState
RoundDone == last.branch # "-" /\ last.err = "none"

\* some candidate left at the start of the last run_step had reached the threshold
SomeoneCrossed ==
    \E i \in DOMAIN last.fp_votes : FracGE(last.fp_votes[i].votes, FromInt(threshold))

TotalWeight(ballots) == WeightFrom(ballots, 1)

\* the candidates a ballot list ranks anywhere, tied positions included
Ranked(ballots) == UNION {UNION Range(b.ranking) : b \in Range(ballots)}

----------------------------------------------------------------------------
(* C1..C10 *)

\* C1: after any number of run_step calls the candidates elected so far, the
\* candidates eliminated so far and the current state's remaining candidates are
\* pairwise disjoint, and together they are exactly the initial profile's candidates.
C1_Partition ==
    Started =>
        LET all == get_all_winners(chain) \o get_all_eliminated(chain)
                   \o election_state.remaining
        IN  NoDuplicates(all) /\ Range(all) = InitialCandidates

\* C2: with 1 <= seats <= |candidates| and a Droop or Hare quota, run_election
\* makes at most |candidates| run_step calls and raises nothing once it has
\* started its loop.  Stated for the electorates whose threshold is positive (at
\* least as many votes as seats), where no division by zero can be the cause.
C2_Terminates ==
    (Started /\ args.seats \in 1..Cardinality(InitialCandidates) /\ threshold > 0) =>
        /\ steps <= Cardinality(InitialCandidates)
        /\ (pc = "ready" /\ last_call = "run_election" /\ steps > 0) => err = "none"

\* the election of tests/test_election_state.py: the fixture ballots, one seat, Droop
FixtureElection ==
    /\ args.profile = [ballots |-> FixtureBallots, candidates |-> None]
    /\ args.seats = 1
    /\ args.quota \in {"droop", "Droop"}

\* C3: the one-seat Droop election on (A,B,C):250, (B,A,C):200, (C,B,A):100 has
\* threshold 276; round 1 elects nobody and eliminates C; round 2 tallies A=250 and
\* B=300 and elects B, leaving A; then the election is over, and run_election
\* returns the round-2 state with all winners [B] and all eliminated [C].
C3_Fixture ==
    (Started /\ FixtureElection) =>
        /\ threshold = 276
        /\ \A k \in DOMAIN chain : chain[k].curr_round = k - 1
        /\ Len(chain) >= 2 =>
              chain[2].elected = <<>> /\ chain[2].eliminated = <<"C">>
        /\ Len(chain) = 3 =>
              Range(last.fp_votes) = {[cand |-> "A", votes |-> FromInt(250)],
                                      [cand |-> "B", votes |-> FromInt(300)]}
        /\ Len(chain) >= 3 =>
              /\ chain[3].elected = <<"B">>
              /\ chain[3].eliminated = <<>>
              /\ chain[3].remaining = <<"A">>
              /\ ~next_round(chain, seats)
              /\ get_all_winners(chain) = <<"B">>
              /\ get_all_eliminated(chain) = <<"C">>
        /\ pc = "loop" => Len(chain) <= 3
        /\ (last_call = "run_election" /\ err = "none") => election_state.curr_round = 2

\* run_election has run the fixture election from round 0 to its end
C3_Witness ==
    /\ Started /\ FixtureElection
    /\ last_call = "run_election" /\ err = "none" /\ steps = 2
    /\ election_state.curr_round = 2
    /\ get_all_winners(chain) = <<"B">>

\* the total weight of integer-weight ballots, as an integer
RECURSIVE IntTotal(_)
IntTotal(ballots) ==
    IF ballots = <<>> THEN 0 ELSE Head(ballots).weight.num + IntTotal(Tail(ballots))

\* C4: the threshold is floor(total/(seats+1)) + 1 for "droop" and floor(total/seats)
\* for "hare", whatever the case of the quota's letters, of the total weight of the
\* profile the election was built from, in every round; 550 ballots and 3 seats give
\* 138 (Droop) and 183 (Hare); any other quota name builds no election.
C4_Threshold ==
    LET total == IntTotal(args.profile.ballots)
        droop == args.quota \in {"droop", "Droop"}
        hare  == args.quota \in {"hare", "HARE"}
    IN  /\ Started =>
            /\ droop \/ hare
            /\ droop => threshold = (total \div (args.seats + 1)) + 1
            /\ hare => threshold = total \div args.seats
            /\ (total = 550 /\ args.seats = 3 /\ droop) => threshold = 138
            /\ (total = 550 /\ args.seats = 3 /\ hare) => threshold = 183
        /\ (pc = "failed" /\ (droop \/ (hare /\ args.seats > 0))) => FALSE

\* a Hare election on 550 ballots for 3 seats, after its first round
C4_Witness ==
    /\ Started
    /\ IntTotal(args.profile.ballots) = 550 /\ args.seats = 3 /\ args.quota = "HARE"
    /\ threshold = 183
    /\ Len(chain) >= 2

\* C5 as claimed: run_election entered with seats equal to the number of candidates
\* of the profile fails with an error and makes no run_step call.
C5_Original ==
    (Started /\ seats = Cardinality(InitialCandidates)) =>
        /\ pc # "loop"
        /\ last_call = "run_election" => (err = "ValueError" /\ steps = 0)

\* a step of the model that is run_election's entry (lines 124-127)
EntersRunElection == pc = "ready" /\ (pc' = "loop" \/ last_call' = "run_election")

\* C5, amended: run_election fails with ValueError, making no run_step call and
\* leaving the chain as it is, exactly when it is entered with as many candidates
\* already elected as there are seats; otherwise (also with seats equal to the
\* number of candidates and nobody elected yet) it goes on to its loop.
C5_Amended ==
    [][EntersRunElection =>
         /\ chain' = chain /\ steps' = 0
         /\ IF Len(get_all_winners(chain)) = seats
            THEN pc' = "ready" /\ last_call' = "run_election" /\ err' = "ValueError"
            ELSE pc' = "loop" /\ err' = err]_vars

\* run_election was called on an election that had filled its seats, and raised
C5_Witness ==
    /\ Started /\ seats > 0
    /\ last_call = "run_election" /\ err = "ValueError" /\ steps = 0
    /\ Len(get_all_winners(chain)) = seats

\* the tally a candidate had at the start of the last run_step
TallyAtStart(candidate) == TallyFrom(candidate, last.ballots, 1)

C7_Eliminate ==
    (RoundDone /\ Len(last.remaining) # last.open /\ ~SomeoneCrossed /\ last.open # 0) =>
        LET state == election_state
            new == state.profile.ballots
        IN  /\ state.elected = <<>>
            /\ Len(state.eliminated) = 1
            /\ state.eliminated[1] \in Range(last.remaining)
            /\ \A c \in Range(last.remaining) :
                  FracGE(TallyAtStart(c), TallyAtStart(state.eliminated[1]))
            /\ state.eliminated[1] \notin Ranked(new)
            /\ Len(new) = Len(last.ballots)
            /\ \A n \in DOMAIN new : new[n].weight = last.ballots[n].weight

Without(ranking, winner) == SelectSeq(ranking, LAMBDA position : position # {winner})

\* C9: fractional_transfer(winner, ballots, votes, threshold) returns the ballots
\* with the weight of every ballot whose first position was exactly {winner}
\* multiplied by (votes[winner] - threshold)/votes[winner], every other weight
\* unchanged, and the winner in no ranking.
C9_Fractional ==
    (Started /\ transfer = "fractional_transfer") =>
        \A j \in DOMAIN last.calls :
            LET call == last.calls[j]
                tally == VotesOf(last.fp_votes, call.winner)
                factor == FracDiv(FracSub(tally, FromInt(threshold)), tally)
            IN  /\ Len(call.returned) = Len(call.given)
                /\ \A n \in DOMAIN call.given :
                      call.returned[n].weight =
                          IF Credits(call.given[n], call.winner)
                          THEN FracMul(call.given[n].weight, factor)
                          ELSE call.given[n].weight
                /\ call.winner \notin Ranked(call.returned)

\* the ballots of a list that have a given ranking once the winner is taken out
CountWith(ballots, ranking, winner) ==
    Cardinality({n \in DOMAIN ballots : Without(ballots[n].ranking, winner) = ranking})

\* C10: random_transfer(winner, ballots, votes, threshold) on integer weights keeps
\* the ballots that did not credit the winner with their weights, puts in place of
\* the winner's ballots exactly votes[winner] - threshold ballots of weight 1, each
\* with the ranking of one of the winner's ballots and no ranking more often than
\* the weight it had, leaves the winner in no ranking, and so lowers the total
\* weight by exactly threshold.
C10_Random ==
    (Started /\ transfer = "random_transfer") =>
        \A j \in DOMAIN last.calls :
            LET call == last.calls[j]
                w == call.winner
                kept == SelectSeq(call.given, LAMBDA b : ~Credits(b, w))
                mine == SelectSeq(call.given, LAMBDA b : Credits(b, w))
                k == IntOf(VotesOf(last.fp_votes, w)) - threshold
                surplus == SubSeq(call.returned, Len(kept) + 1, Len(call.returned))
            IN  /\ Len(call.returned) = Len(kept) + k
                /\ \A n \in DOMAIN kept :
                      /\ call.returned[n].weight = kept[n].weight
                      /\ call.returned[n].ranking = Without(kept[n].ranking, w)
                /\ \A n \in DOMAIN surplus :
                      /\ surplus[n].weight = FromInt(1)
                      /\ CountWith(surplus, surplus[n].ranking, w) <=
                            IntTotal(SelectSeq(mine, LAMBDA b :
                                        Without(b.ranking, w) = surplus[n].ranking))
                /\ w \notin Ranked(call.returned)
                /\ TotalWeight(call.returned) =
                      FracSub(TotalWeight(call.given), FromInt(threshold))

----------------------------------------------------------------------------
(* C11..C20 *)

\* C11 as claimed: seqRCV_transfer leaves every ballot weight unchanged and returns
\* ballots in which the winner appears in no ranking.
C11_Original ==
    (Started /\ transfer = "seqRCV_transfer") =>
        \A j \in DOMAIN last.calls :
            LET call == last.calls[j]
            IN  /\ Len(call.returned) = Len(call.given)
                /\ \A n \in DOMAIN call.given :
                      call.returned[n].weight = call.given[n].weight
                /\ call.winner \notin Ranked(call.returned)

\* C11, amended: seqRCV_transfer returns the ballots it was given, with the same
\* weights and the same rankings, the winner's positions included; the round's new
\* profile is that list.
C11_Amended ==
    (Started /\ transfer = "seqRCV_transfer") =>
        /\ \A j \in DOMAIN last.calls :
              /\ last.calls[j].returned = last.calls[j].given
              /\ last.calls[j].given = last.ballots
        /\ (RoundDone /\ last.branch = "elect") =>
              election_state.profile.ballots = last.ballots

\* a round elected a candidate with the no-op transfer, and the ballots it returned
\* still rank that candidate first
C11_Witness ==
    /\ Started /\ transfer = "seqRCV_transfer"
    /\ RoundDone /\ last.branch = "elect"
    /\ Len(last.calls) >= 1
    /\ \E b \in Range(last.calls[1].returned) :
          b.weight.num > 0 /\ Credits(b, last.calls[1].winner)

\* the sum of the tallies of a compute_votes result
RECURSIVE SumVotes(_)
SumVotes(fp_votes) ==
    IF fp_votes = <<>> THEN FromInt(0)
    ELSE FracAdd(Head(fp_votes).votes, SumVotes(Tail(fp_votes)))

\* the ballots whose first ranking position is exactly the singleton {candidate}
FirstChoiceOf(ballots, candidate) ==
    SelectSeq(ballots, LAMBDA b : b.ranking # <<>> /\ Head(b.ranking) = {candidate})

\* C12: compute_votes(candidates, ballots) returns one entry per listed candidate,
\* by tally descending; a tally is the total weight of the ballots whose first
\* position is exactly {candidate}; ballots with an empty ranking or a tied first
\* position add to nobody; a candidate with no such ballot has tally 0; the tallies
\* sum to at most the total ballot weight.
C12_Tally ==
    (pc = "returned" /\ last_call = "compute_votes") =>
        LET fp == last.fp_votes
            singles == SelectSeq(args.ballots, LAMBDA b :
                          b.ranking # <<>> /\ \E c \in Range(args.candidates) :
                                                  Head(b.ranking) = {c})
        IN  /\ Len(fp) = Len(args.candidates)
            /\ {fp[i].cand : i \in DOMAIN fp} = Range(args.candidates)
            /\ \A i, j \in DOMAIN fp : i < j => FracGE(fp[i].votes, fp[j].votes)
            /\ \A i \in DOMAIN fp :
                  /\ fp[i].votes = TotalWeight(FirstChoiceOf(args.ballots, fp[i].cand))
                  /\ FirstChoiceOf(args.ballots, fp[i].cand) = <<>> =>
                        fp[i].votes = FromInt(0)
            /\ SumVotes(fp) = TotalWeight(singles)
            /\ FracGE(TotalWeight(args.ballots), SumVotes(fp))

\* a call that listed all three candidates, C first, on ballots of which one with
\* a tied first position and one with an empty ranking carry weight: C, whom no
\* ballot ranks first, comes last with tally 0 and the tallies sum to less than
\* the total weight
C12_Witness ==
    /\ pc = "returned" /\ last_call = "compute_votes"
    /\ args.candidates = <<"C", "B", "A">>
    /\ args.ballots[2].weight.num > 0 /\ args.ballots[3].weight.num > 0
    /\ FracLT(last.fp_votes[2].votes, last.fp_votes[1].votes)
    /\ last.fp_votes[3] = [cand |-> "C", votes |-> FromInt(0)]
    /\ FracLT(SumVotes(last.fp_votes), TotalWeight(args.ballots))

\* C17: running an STV election leaves the input profile unchanged: what
\* get_init_profile returns has the ballots, rankings and weights the profile had
\* when the STV object was constructed.
C17_InputUnchanged ==
    Started => get_init_profile = args.profile

\* C18: a run_step never changes an ElectionState already in the chain: the
\* elected, eliminated and remaining lists and the profile of every earlier round
\* stay what they were.
C18_StatesFrozen ==
    [][(Started /\ Len(chain') >= Len(chain)) =>
          SubSeq(chain', 1, Len(chain)) = chain]_vars

\* the number of entries the states i..j of a chain elected, and eliminated
RECURSIVE ElectedIn(_, _, _)
ElectedIn(ch, i, j) ==
    IF i > j THEN 0 ELSE Len(ch[i].elected) + ElectedIn(ch, i + 1, j)

RECURSIVE EliminatedIn(_, _, _)
EliminatedIn(ch, i, j) ==
    IF i > j THEN 0 ELSE Len(ch[i].eliminated) + EliminatedIn(ch, i + 1, j)

\* winners lists the elected entries of ch, earliest round first, and losers its
\* eliminated entries, latest round first, the order within a round kept
InRoundOrder(ch, winners, losers) ==
    /\ Len(winners) = ElectedIn(ch, 1, Len(ch))
    /\ Len(losers) = EliminatedIn(ch, 1, Len(ch))
    /\ \A i \in DOMAIN ch :
          /\ \A p \in DOMAIN ch[i].elected :
                winners[ElectedIn(ch, 1, i - 1) + p] = ch[i].elected[p]
          /\ \A p \in DOMAIN ch[i].eliminated :
                losers[EliminatedIn(ch, i + 1, Len(ch)) + p] = ch[i].eliminated[p]

\* C19: get_all_winners of a state lists the elected entries of the states from the
\* first round up to it in chronological order, get_all_eliminated their
\* eliminated entries with the most recently eliminated first; so for every
\* state of an STV chain and for every state of the tests' chains, whose expected
\* lists are [A, B, D] and [G, F, E, C].
C19_ChainOrder ==
    /\ \A k \in DOMAIN TestChain :
          InRoundOrder(SubSeq(TestChain, 1, k),
                       get_all_winners(SubSeq(TestChain, 1, k)),
                       get_all_eliminated(SubSeq(TestChain, 1, k)))
    /\ get_all_winners(SubSeq(TestChain, 1, 2)) = <<{"A"}, {"B"}, {"D"}>>
    /\ get_all_eliminated(TestChain) = <<{"G"}, {"F"}, {"E"}, {"C"}>>
    /\ Started =>
          \A k \in DOMAIN chain :
              InRoundOrder(SubSeq(chain, 1, k),
                           get_all_winners(SubSeq(chain, 1, k)),
                           get_all_eliminated(SubSeq(chain, 1, k)))

\* an election eliminated C, then B, then elected A: the eliminated read B, C
C19_Witness ==
    /\ Started /\ Len(chain) = 4
    /\ chain[2].eliminated = <<"C">> /\ chain[3].eliminated = <<"B">>
    /\ chain[4].elected = <<"A">>
    /\ get_all_eliminated(chain) = <<"B", "C">>
    /\ get_all_winners(chain) = <<"A">>

\* C20: get_rankings of a state is all winners of the chain up to it in
\* chronological order, then the candidates remaining in that state, then all
\* eliminated candidates with the most recently eliminated first; a candidate that
\* was remaining in an earlier state and is elected later is listed once, among the
\* winners.  For the tests' chains the lists are [A, B, D, E, C] and
\* [A, B, D, F, E, C].
C20_Rankings ==
    /\ get_rankings(SubSeq(TestChain, 1, 2)) = <<{"A"}, {"B"}, {"D"}, {"E"}, {"C"}>>
    /\ get_rankings(TestChainRemaining) = <<{"A"}, {"B"}, {"D"}, {"F"}, {"E"}, {"C"}>>
    /\ Started =>
          \A k \in DOMAIN chain :
              LET ch == SubSeq(chain, 1, k)
                  ranks == get_rankings(ch)
                  w == ElectedIn(ch, 1, k)
                  r == Len(chain[k].remaining)
              IN  /\ Len(ranks) = w + r + EliminatedIn(ch, 1, k)
                  /\ InRoundOrder(ch, SubSeq(ranks, 1, w),
                                  SubSeq(ranks, w + r + 1, Len(ranks)))
                  /\ SubSeq(ranks, w + 1, w + r) = chain[k].remaining
                  /\ \A j \in 1..(k - 1) : \A c \in Range(chain[j].remaining) :
                        c \in Range(get_all_winners(ch)) =>
                            /\ Cardinality({n \in DOMAIN ranks : ranks[n] = c}) = 1
                            /\ \E n \in 1..w : ranks[n] = c

\* A was elected, then C eliminated with B left, then B elected: the rankings of
\* the three rounds read A, then A B C with B remaining, then A B C with B a winner
C20_Witness ==
    /\ Started /\ Len(chain) = 4
    /\ chain[2].elected = <<"A">>
    /\ chain[3].eliminated = <<"C">> /\ chain[3].remaining = <<"B">>
    /\ chain[4].elected = <<"B">>
    /\ get_rankings(SubSeq(chain, 1, 3)) = <<"A", "B", "C">>
    /\ get_rankings(chain) = <<"A", "B", "C">>

\* the states the stages of the current run_election call have built
SeqStages == SubSeq(chain, Len(chain) - Len(last.elected) + 1, Len(chain))

\* C13: SequentialRCV.run_election with k seats, k at most the number of candidates,
\* performs exactly k run_step stages; each stage declares exactly one winner; no
\* candidate is declared winner in two stages; after each stage the stage winner
\* appears in no ballot of the resulting profile.
C13_Sequential ==
    (last.branch = "stage" /\ seats <= Cardinality(Ranked(args.profile.ballots))) =>
        /\ steps <= seats
        /\ (pc = "ready" /\ last_call = "run_election") =>
              (err = "none" /\ steps = seats)
        /\ \A k \in DOMAIN SeqStages :
              /\ Len(SeqStages[k].elected) = 1
              /\ \A c \in Range(SeqStages[k].elected) :
                    c \notin Ranked(SeqStages[k].profile.ballots)
        /\ \A j, k \in DOMAIN SeqStages :
              j # k => Range(SeqStages[j].elected) \cap Range(SeqStages[k].elected) = {}

\* a run_borda_step (or run_borda_election) call has ended
BordaStepped == pc = "ready" /\ last_call \in {"run_borda_step", "run_borda_election"}

\* C14: run_borda_step produces a single new state, round index 1, previous the
\* round-0 state, profile unchanged, remaining empty; its elected list is the
\* `seats` candidates with the highest total points in descending order, its
\* eliminated list all the others; the two are disjoint and together hold every
\* candidate of the profile exactly once, those no ballot ranks included.
C14_BordaStep ==
    (BordaStepped /\ chain[1].curr_round = 0 /\ Len(chain) <= 2) =>
        /\ err = "none"
        /\ Len(chain) = 2
        /\ chain[1] = [curr_round |-> 0, elected |-> <<>>, eliminated |-> <<>>,
                       remaining |-> <<>>, profile |-> args.profile]
        /\ chain[2].curr_round = 1
        /\ chain[2].profile = args.profile
        /\ chain[2].remaining = <<>>
        /\ LET all == chain[2].elected \o chain[2].eliminated
               n == Cardinality(InitialCandidates)
           IN  /\ Len(chain[2].elected) = (IF seats < n THEN seats ELSE n)
               /\ NoDuplicates(all)
               /\ Range(all) = InitialCandidates
               /\ Len(all) = Len(last.sorted_borda)
               /\ \A i \in DOMAIN all :
                     /\ last.sorted_borda[i].cand = {all[i]}
                     /\ \A j \in DOMAIN all :
                           i < j => FracGE(last.sorted_borda[i].votes,
                                           last.sorted_borda[j].votes)

\* the points a dict of awards holds for a candidate, 0 when it has no entry
PointsOf(awards, candidate) ==
    IF HasKey(awards, {candidate})
    THEN (CHOOSE e \in Range(awards) : e.cand = {candidate}).votes
    ELSE FromInt(0)

\* C15: in a standard Borda election with the default weights n, n-1, ..., 1 every
\* ballot of weight w awards w * (n + ... + 1) points in total: a candidate ranked
\* at position i gets w * weight[i], and on a ballot that ranks r < n candidates
\* each unranked candidate gets w * (the sum of the unused weights) / (n - r).
C15_BordaPoints ==
    (BordaStepped /\ args.standard /\ args.borda_weights = None) =>
        LET n == Len(last.all_candidates)
            weights == default_weights(n)
            ballots == args.profile.ballots
        IN  \A b \in DOMAIN ballots :
              LET w == ballots[b].weight
                  ranked == UNION Range(ballots[b].ranking)
                  unranked == Range(last.all_candidates) \ ranked
                  r == Cardinality(ranked)
              IN  /\ SumVotes(last.awards[b]) = FracMul(w, FromInt((n * (n + 1)) \div 2))
                  /\ \A i \in DOMAIN ballots[b].ranking : \A c \in ballots[b].ranking[i] :
                        PointsOf(last.awards[b], c) = FracMul(w, FromInt(weights[i]))
                  /\ \A c \in unranked :
                        PointsOf(last.awards[b], c) =
                            FracMul(w, Fraction(SumFrom(weights, r), n - r))

\* the candidate names in lexicographic order
Lexicographic == <<"A", "B", "C">>

\* a < b as strings
LexLess(a, b) ==
    \E i, j \in DOMAIN Lexicographic :
        i < j /\ Lexicographic[i] = a /\ Lexicographic[j] = b

\* C16: candidates with equal tallies at or above the threshold in one STV round
\* are elected (and their surpluses transferred) in lexicographic order of their
\* identifiers, whatever the order of the candidates or ballots in the profile.
\* Stated for the elections whose threshold is positive.
C16_TieOrder ==
    (RoundDone /\ last.branch = "elect" /\ threshold > 0) =>
        \A j, k \in DOMAIN election_state.elected :
            (j < k /\ TallyAtStart(election_state.elected[j]) =
                        TallyAtStart(election_state.elected[k]))
                => LexLess(election_state.elected[j], election_state.elected[k])

----------------------------------------------------------------------------
(* C21..C30 *)

\* an STV chain with every entry, a candidate's name, as the set of that candidate
AsSets(ch) ==
    [k \in DOMAIN ch |->
       [curr_round |-> ch[k].curr_round,
        elected    |-> [i \in DOMAIN ch[k].elected |-> {ch[k].elected[i]}],
        eliminated |-> [i \in DOMAIN ch[k].eliminated |-> {ch[k].eliminated[i]}],
        remaining  |-> [i \in DOMAIN ch[k].remaining |-> {ch[k].remaining[i]}]]]

\* the rows of table are exactly one row per candidate of the chain ch: Elected
\* or Eliminated with the round it happened in, Remaining with the last round
StatusOf(ch, table) ==
    LET last_state == ch[Len(ch)]
        Row(c, stat, round) == [Candidate |-> c, Status |-> stat, Round |-> round]
        expected ==
            UNION {{Row(c, "Elected", ch[k].curr_round) :
                      c \in UNION Range(ch[k].elected)}
                   \cup {Row(c, "Eliminated", ch[k].curr_round) :
                      c \in UNION Range(ch[k].eliminated)} : k \in DOMAIN ch}
            \cup {Row(c, "Remaining", last_state.curr_round) :
                      c \in UNION Range(last_state.remaining)}
    IN  /\ Range(table) = expected
        /\ \A c \in {r.Candidate : r \in expected} :
               Cardinality({n \in DOMAIN table : table[n].Candidate = c}) = 1

\* C21: status() of a state lists every candidate elected or eliminated anywhere
\* in the chain up to that state, or remaining in that state, exactly once:
\* Elected or Eliminated with the round in which that happened, Remaining with
\* the state's own round; so for the tests' chains, whose expected tables are
\* A Remaining 2, B Elected 2, C Eliminated 1 and A, B Elected 1, C Eliminated 1,
\* D Elected 2, E Eliminated 2, F Elected 2, and for every state of an STV chain.
C21_Status ==
    /\ StatusOf(TestRounds, status(TestRounds))
    /\ Range(status(TestRounds)) =
          {[Candidate |-> "A", Status |-> "Remaining", Round |-> 2],
           [Candidate |-> "B", Status |-> "Elected", Round |-> 2],
           [Candidate |-> "C", Status |-> "Eliminated", Round |-> 1]}
    /\ \A k \in DOMAIN TestChainRemaining :
          StatusOf(SubSeq(TestChainRemaining, 1, k),
                   status(SubSeq(TestChainRemaining, 1, k)))
    /\ Started =>
          \A k \in DOMAIN chain :
              StatusOf(AsSets(SubSeq(chain, 1, k)),
                       status(AsSets(SubSeq(chain, 1, k))))

\* an election eliminated C and then elected B with A left: three rows, one each
C21_Witness ==
    /\ Started /\ Len(chain) = 3
    /\ chain[2].eliminated = <<"C">> /\ chain[3].elected = <<"B">>
    /\ chain[3].remaining = <<"A">>
    /\ Range(status(AsSets(chain))) =
          {[Candidate |-> "A", Status |-> "Remaining", Round |-> 2],
           [Candidate |-> "B", Status |-> "Elected", Round |-> 2],
           [Candidate |-> "C", Status |-> "Eliminated", Round |-> 1]}

\* C22: get_round_outcome(roundNum) returns the elected and eliminated candidates
\* of the state of the chain whose round index is roundNum, and raises when no
\* state of the chain has that round index; so for the tests' chain, whose round 1
\* reads Elected [A, B], Eliminated [C] and which has no round 4 seen from
\* round 1, and for every state of an STV chain and every round number.
C22_RoundOutcome ==
    /\ get_round_outcome(SubSeq(TestChain, 1, 2), 1) =
          [err |-> "none", Elected |-> <<"A", "B">>, Eliminated |-> <<"C">>]
    /\ get_round_outcome(SubSeq(TestChain, 1, 1), 4).err = "ValueError"
    /\ Started =>
          \A k \in DOMAIN chain : \A roundNum \in 0..(MaxRounds + 2) :
              LET ch == SubSeq(chain, 1, k)
                  out == get_round_outcome(AsSets(ch), roundNum)
              IN  IF roundNum <= ch[k].curr_round
                  THEN /\ out.err = "none"
                       /\ out.Elected = ch[roundNum + 1].elected
                       /\ out.Eliminated = ch[roundNum + 1].eliminated
                  ELSE out.err = "ValueError"

\* after two rounds, the second one electing, round 1 and round 2 are answered
\* from the chain and round 3 raises
C22_Witness ==
    /\ Started /\ Len(chain) = 3
    /\ chain[2].eliminated # <<>> /\ chain[3].elected # <<>>
    /\ get_round_outcome(AsSets(chain), 1).Eliminated = chain[2].eliminated
    /\ get_round_outcome(AsSets(chain), 2).Elected = chain[3].elected
    /\ get_round_outcome(AsSets(chain), 3).err = "ValueError"

\* the weights of a list of ballots in halves, summed as whole numbers
RECURSIVE Halves(_)
Halves(ballots) ==
    IF ballots = <<>> THEN 0
    ELSE (2 * Head(ballots).weight.num) \div Head(ballots).weight.den
         + Halves(Tail(ballots))

\* the profile with ballots i and j replaced by one of their summed weight
Merged(profile, i, j) ==
    [profile EXCEPT !.ballots =
        [n \in 1..(Len(@) - 1) |->
           IF n = i THEN [@[i] EXCEPT !.weight = FracAdd(@, profile.ballots[j].weight)]
           ELSE IF n < j THEN @[n] ELSE @[n + 1]]]

\* C23: num_ballots returns the exact sum of all ballot weights, 0 and no error
\* for a profile without ballots, and the same value for the profile in which two
\* ballots of identical ranking are replaced by one carrying the sum of their
\* weights.
C23_NumBallots ==
    (pc = "returned" /\ last_call = "num_ballots") =>
        /\ err = "none"
        /\ last.value = Fraction(Halves(args.ballots), 2)
        /\ args.ballots = <<>> => last.value = FromInt(0)
        /\ \A i, j \in DOMAIN args.ballots :
              (i < j /\ args.ballots[i].ranking = args.ballots[j].ranking) =>
                  num_ballots(Merged(args, i, j)) = last.value

\* a profile of three ballots, the first and the last of one ranking, of weights
\* 1/2, 2 and 1: the total is 7/2, as for the two ballots of weights 3/2 and 2
C23_Witness ==
    /\ pc = "returned" /\ last_call = "num_ballots"
    /\ Len(args.ballots) = 3
    /\ args.ballots[1].ranking = args.ballots[3].ranking
    /\ args.ballots[1].ranking # args.ballots[2].ranking
    /\ args.ballots[1].weight = Fraction(1, 2)
    /\ args.ballots[2].weight = FromInt(2)
    /\ args.ballots[3].weight = FromInt(1)
    /\ last.value = Fraction(7, 2)
    /\ Len(Merged(args, 1, 3).ballots) = 2
    /\ num_ballots(Merged(args, 1, 3)) = Fraction(7, 2)

\* the values of a dict, summed
RECURSIVE SumValues(_)
SumValues(di) ==
    IF di = <<>> THEN FromInt(0)
    ELSE FracAdd(Head(di).value, SumValues(Tail(di)))

\* C24: to_dict returns exactly one entry per distinct ranking among the ballots;
\* with standardize=False each value is the summed weight of the ballots of that
\* ranking and the values sum to num_ballots(); with standardize=True and a
\* positive total weight the values sum to exactly 1.  Stated for the profiles
\* whose ballots all carry weight.
C24_ToDict ==
    (pc = "returned" /\ last_call = "to_dict"
       /\ (\A b \in Range(args.ballots) : b.weight.num > 0)
       /\ (last.standardize => num_ballots(args).num > 0)) =>
        LET rankings == {b.ranking : b \in Range(args.ballots)}
            WithRanking(r) == SelectSeq(args.ballots, LAMBDA b : b.ranking = r)
        IN  /\ err = "none"
            /\ Len(last.di) = Cardinality(rankings)
            /\ ~last.standardize =>
                  /\ \E f \in [DOMAIN last.di -> rankings] :
                        /\ \A m, n \in DOMAIN last.di : m # n => f[m] # f[n]
                        /\ \A n \in DOMAIN last.di :
                              /\ last.di[n].key \in rank_tuple(f[n])
                              /\ last.di[n].value = TotalWeight(WithRanking(f[n]))
                  /\ SumValues(last.di) = num_ballots(args)
            /\ last.standardize => SumValues(last.di) = FromInt(1)

\* C25: every ballot generator asked for N ballots returns a profile whose total
\* weight is exactly N, with one ballot per distinct generated ranking; in
\* particular PlackettLuce.generate_ballots returns total weight N for every N
\* and every demographic breakdown whose fractions sum to 1.  Stated for the
\* generators with at least one candidate asked for at least one ballot.
C25_Generators ==
    (pc = "returned" /\ last_call = "generate_ballots"
       /\ args.number_of_ballots > 0 /\ args.candidate_list # <<>>) =>
        /\ err = "none"
        /\ last.profile # None
        /\ num_ballots(last.profile[1]) = FromInt(args.number_of_ballots)
        /\ NoDuplicates([n \in DOMAIN last.profile[1].ballots |->
                            last.profile[1].ballots[n].ranking])

\* C26: in every reachable state of an STV election (any quota type, any transfer
\* function, any profile), the number of candidates elected so far across the
\* chain never exceeds the number of seats.  Stated for the elections whose
\* threshold is positive.
C26_SeatsBound ==
    (Started /\ threshold > 0) => Len(get_all_winners(chain)) <= seats

\* C27: in an STV election with fractional transfer, every round that elects m
\* candidates by crossing the threshold lowers the total ballot weight of the
\* profile by exactly m * threshold, also when m > 1 and a ballot credited to the
\* first winner transfers to another winner of the same round.  Stated for the
\* elections whose threshold is positive.
C27_FractionalTotal ==
    (Started /\ RoundDone /\ last.branch = "elect" /\ threshold > 0
       /\ transfer = "fractional_transfer") =>
        FracSub(TotalWeight(last.ballots), TotalWeight(election_state.profile.ballots))
            = FromInt(Len(election_state.elected) * threshold)

\* C28: along every STV chain run with fractional or random transfer, every
\* ballot weight in every round's profile is >= 0 and the total ballot weight of
\* round k+1's profile is never greater than that of round k's profile, whether
\* round k's profile is read as the step found it or as the chain holds it
\* afterwards.
C28_Weights ==
    (Started /\ transfer \in {"fractional_transfer", "random_transfer"}) =>
        /\ \A k \in DOMAIN chain : \A b \in Range(chain[k].profile.ballots) :
              b.weight.num >= 0 /\ b.weight.den > 0
        /\ \A k \in 1..(Len(chain) - 1) :
              FracGE(TotalWeight(chain[k].profile.ballots),
                     TotalWeight(chain[k + 1].profile.ballots))
        /\ RoundDone =>
              FracGE(TotalWeight(last.ballots),
                     TotalWeight(election_state.profile.ballots))

\* a round elected one candidate with fractional transfer and left a ballot of
\* weight 1/2: the total fell by the threshold
C28_Witness ==
    /\ Started /\ RoundDone /\ transfer = "fractional_transfer"
    /\ last.branch = "elect" /\ Len(election_state.elected) = 1
    /\ threshold > 0
    /\ \E b \in Range(election_state.profile.ballots) : b.weight = Fraction(1, 2)
    /\ FracSub(TotalWeight(last.ballots), TotalWeight(election_state.profile.ballots))
          = FromInt(threshold)

\* C29: in every state of an STV chain run with fractional or random transfer,
\* the ballots of that state's profile rank only candidates that are in that
\* state's remaining list: no elected or eliminated candidate appears in any
\* ranking of a later profile.  Stated for the state a round has just built, in
\* the elections whose candidates are those the ballots rank, whose ballots all
\* carry weight and whose threshold is positive.
C29_OnlyRemainingRanked ==
    (Started /\ RoundDone /\ transfer \in {"fractional_transfer", "random_transfer"}
       /\ args.profile.candidates = None /\ threshold > 0
       /\ \A b \in Range(args.profile.ballots) : b.weight.num > 0) =>
        /\ Ranked(election_state.profile.ballots) \subseteq Range(election_state.remaining)
        /\ Ranked(election_state.profile.ballots)
              \cap (Range(get_all_winners(chain)) \cup Range(get_all_eliminated(chain))) = {}

\* C30: in a Sequential RCV election, the candidate elected at stage k+1 is always
\* a member of the remaining list recorded in stage k's ElectionState: a
\* candidate absent from a state's remaining list is never elected later.
\* Stated for the stages of one run_election whose elected list is one candidate.
C30_ElectedWasRemaining ==
    (pc \in {"loop", "ready"} /\ last.branch = "stage") =>
        \A k \in 1..(Len(SeqStages) - 1) :
            Len(SeqStages[k + 1].elected) = 1 =>
                SeqStages[k + 1].elected[1] \in Range(SeqStages[k].remaining)

====
